---- MODULE Spec2Model ----
(***************************************************************************)
(* The retrieval + re-ranking pipeline of digitaltalbashan/ai:             *)
(*   rag/query_improved.py      RagQueryEngine (retrieve, rerank, answer)  *)
(*   rag/rerank_improved.py     rerank_chunks                              *)
(*   rag/model_cache.py         the process-wide model cache               *)
(*   scripts/rerank_with_crossencoder.py   get_reranker, rerank_chunks     *)
(*                                                                         *)
(* A Python dict is a function from its keys to its values, so a missing   *)
(* key is a key outside DOMAIN.  A Python str that the code inspects       *)
(* (search_query, question) is a sequence of characters; None is NoneStr.  *)
(***************************************************************************)
EXTENDS Integers, Sequences, FiniteSets, TLC

(* ---------------------------- bounds ---------------------------------- *)
\* longest chunk list handed to a re-rank function called on its own
MaxLen == 3
\* cross-encoder scores range over 0..MaxScore
MaxScore == 1
\* model loads in one behaviour (caps the handle serial numbers)
MaxLoads == 2
\* most rows in the knowledge_chunks table
MaxRows == 2
\* stage durations range over 0..MaxDur
MaxDur == 1
\* calls made to the model cache in one behaviour
MaxCalls == 3
\* the largest number of engines constructed
MaxEngines == 2
\* model loads in one behaviour with several engines
MaxEngineLoads == 4

(* ------------------------ program constants --------------------------- *)
DEFAULT_TOP_K_RETRIEVE == 50
DEFAULT_TOP_N_RERANK == 8

EMBEDDING_MODEL_NAME == "sentence-transformers/paraphrase-multilingual-mpnet-base-v2"

RERANK_MODEL_ALIASES ==
    [fast     |-> "cross-encoder/ms-marco-MiniLM-L-6-v2",
     balanced |-> "BAAI/bge-reranker-base",
     best     |-> "BAAI/bge-reranker-large",
     latest   |-> "mixedbread-ai/mxbai-rerank-large-v1"]

\* rag/rerank_improved.py has its own copy of the alias table
RERANK_MODELS ==
    [fast     |-> "cross-encoder/ms-marco-MiniLM-L-6-v2",
     balanced |-> "BAAI/bge-reranker-base",
     best     |-> "BAAI/bge-reranker-large",
     latest   |-> "mixedbread-ai/mxbai-rerank-large-v1"]

DEFAULT_RERANK_MODEL == "fast"
SCRIPT_DEFAULT_RERANK_MODEL == "BAAI/bge-reranker-base"

(* --------------------------- Python values ---------------------------- *)
\* None where a model name (or an environment value) is expected
NoneName == "<None>"
\* None where a model handle is expected
NoHandle == [name |-> NoneName, serial |-> 0]
\* None where a str argument is expected
NoneStr == <<"<None>">>

Range(s) == {s[i] : i \in 1..Len(s)}

Min(a, b) == IF a < b THEN a ELSE b

\* the permutations of 1..n, for every length a list of the model can have
IndexPerms ==
    [n \in 0..(IF MaxLen > MaxRows THEN MaxLen ELSE MaxRows) |->
        {q \in [1..n -> 1..n] : \A a, b \in 1..n : q[a] = q[b] => a = b}]

\* all orderings of a list
Perms(s) == {[i \in 1..Len(s) |-> s[p[i]]] : p \in IndexPerms[Len(s)]}

\* str.strip(): leading and trailing whitespace removed
IsSpace(c) == c \in {" ", "\t", "\n"}

RECURSIVE LStrip(_)
LStrip(s) == IF Len(s) > 0 /\ IsSpace(Head(s)) THEN LStrip(Tail(s)) ELSE s

RECURSIVE RStrip(_)
RStrip(s) ==
    IF Len(s) > 0 /\ IsSpace(s[Len(s)])
    THEN RStrip(SubSeq(s, 1, Len(s) - 1)) ELSE s

Strip(s) == RStrip(LStrip(s))

\* d[k] = v
SetKey(d, k, v) == [x \in (DOMAIN d) \cup {k} |-> IF x = k THEN v ELSE d[x]]

\* d.get(k, default)
Get(d, k, default) == IF k \in DOMAIN d THEN d[k] ELSE default

\* a slice that drops one element too many: s[:n - 1]
TakeOneLess(s, n) ==
    LET k == IF n >= 1 THEN Min(n - 1, Len(s)) ELSE 0
    IN  SubSeq(s, 1, k)

\* s[:n], Python's slice: a negative n counts from the end
Take(s, n) ==
    LET k == IF n >= 0 THEN Min(n, Len(s))
             ELSE IF Len(s) + n > 0 THEN Len(s) + n ELSE 0
    IN  SubSeq(s, 1, k)

(* ----------------------------- state ---------------------------------- *)
VARIABLES
    \* rag/model_cache.py module globals
    _embedding_model, _embedding_model_name,
    _rerank_model, _rerank_model_name,
    \* the calls a client has made to rag/model_cache.py, in order, each with
    \* its argument, the two slots before and after it and what it returned
    cache_log,
    \* the threads calling rag/model_cache.py concurrently: for each, where
    \* it is in its call, what it asked for and what it was handed
    thr,
    \* scripts/rerank_with_crossencoder.py module globals
    _rerank_model_cache, script_rerank_model_name,
    \* os.environ["RERANK_MODEL"] (NoneName when unset)
    env_RERANK_MODEL,
    \* number of models constructed so far (the next handle's serial - 1)
    nloads,
    \* the knowledge_chunks table: rows in physical order
    store,
    \* fields of the RagQueryEngine that answer() is called on
    top_k_retrieve, top_n_rerank,
    \* the RagQueryEngine objects constructed so far, each with the handles
    \* it keeps (and, for the record, how it was constructed)
    engines,
    \* rag/query_improved.py module global, assigned when it is imported
    RERANK_MODEL_NAME,
    \* one call of RagQueryEngine.answer: where it is, its arguments as
    \* passed, its arguments after the defaulting of lines 176-179, its locals
    \* and what it returned (timing_info is the third element of the tuple)
    pc, arg_search_query, arg_question, measure_time,
    ans_search_query, ans_question, ans_llm_callable, ans_candidates,
    ans_top_chunks, timing_info, result,
    \* the calls answer() has made to its three stages in this invocation,
    \* in order, each with its arguments and its return value
    log,
    \* one call of a re-rank function: which one, its arguments, the list
    \* object the caller holds (re-rankers may write to its dicts), the result
    rr_impl, rr_question, rr_chunks, rr_top_n, rr_model_name,
    rr_given, rr_pc, rr_out,
    \* the cross-encoder: the pairs predict() was last given, in order, the
    \* score it returned for each of them, and how often predict() was called
    pairs, xenc, predict_calls,
    \* the model the last predict() was called on, and by which caller (the
    \* index of an engine, 0 for a rerank_chunks function)
    predict_on

cache_vars == <<_embedding_model, _embedding_model_name,
                _rerank_model, _rerank_model_name, cache_log, thr,
                _rerank_model_cache, script_rerank_model_name, nloads>>
rr_args == <<rr_impl, rr_question, rr_top_n, rr_model_name, rr_given>>
rr_vars == <<rr_impl, rr_question, rr_chunks, rr_top_n, rr_model_name,
             rr_given, rr_pc, rr_out>>
engine_vars == <<store, top_k_retrieve, top_n_rerank, engines,
                 RERANK_MODEL_NAME>>
answer_vars == <<pc, arg_search_query, arg_question, measure_time,
                 ans_search_query, ans_question, ans_llm_callable,
                 ans_candidates, ans_top_chunks, timing_info, result, log>>
vars == <<_embedding_model, _embedding_model_name,
          _rerank_model, _rerank_model_name, cache_log, thr,
          engines, RERANK_MODEL_NAME, predict_on, _rerank_model_cache,
          script_rerank_model_name, env_RERANK_MODEL, nloads,
          store, top_k_retrieve, top_n_rerank,
          pc, arg_search_query, arg_question, measure_time,
          ans_search_query, ans_question, ans_llm_callable,
          ans_candidates, ans_top_chunks, timing_info, result, log,
          rr_impl, rr_question, rr_chunks, rr_top_n, rr_model_name,
          rr_given, rr_pc, rr_out, pairs, xenc, predict_calls>>

(* ---------------------- rag/model_cache.py --------------------------- *)
\* CrossEncoder(name) / SentenceTransformer(name): a new instance, the n+1st
\* a constructor that ignores the name it is given
HandleOfDefault(name, n) == [name |-> EMBEDDING_MODEL_NAME, serial |-> n + 1]

NewHandle(name, n) == [name |-> name, serial |-> n + 1]

\* a cache that loads on every call, whatever it holds
get_embedding_model_always_loads(model, name, n, model_name, load_ok) ==
    IF load_ok
    THEN [raised |-> FALSE,
          ret    |-> NewHandle(model_name, n),
          model  |-> NewHandle(model_name, n),
          name   |-> model_name,
          nloads |-> n + 1]
    ELSE [raised |-> TRUE, ret |-> NoHandle,
          model |-> model, name |-> name, nloads |-> n]

\* get_embedding_model(model_name) on the cache slot (model, name) after n
\* loads; load_ok: whether SentenceTransformer(model_name) succeeds if it is
\* called.  The constructor runs before either global is assigned, so a
\* failing load leaves both as they were.
get_embedding_model(model, name, n, model_name, load_ok) ==
    IF model = NoHandle \/ name # model_name
    THEN IF load_ok
         THEN [raised |-> FALSE,
               ret    |-> NewHandle(model_name, n),
               model  |-> NewHandle(model_name, n),
               name   |-> model_name,
               nloads |-> n + 1]
         ELSE [raised |-> TRUE, ret |-> NoHandle,
               model |-> model, name |-> name, nloads |-> n]
    ELSE [raised |-> FALSE, ret |-> model,
          model |-> model, name |-> name, nloads |-> n]

\* a cache that compares and stores the argument as it was passed
get_rerank_model_unresolved(model, name, n, model_name, load_ok) ==
    IF model = NoHandle \/ name # model_name
    THEN IF load_ok
         THEN [raised |-> FALSE,
               ret    |-> NewHandle(model_name, n),
               model  |-> NewHandle(model_name, n),
               name   |-> model_name,
               nloads |-> n + 1]
         ELSE [raised |-> TRUE, ret |-> NoHandle,
               model |-> model, name |-> name, nloads |-> n]
    ELSE [raised |-> FALSE, ret |-> model,
          model |-> model, name |-> name, nloads |-> n]

\* a cache that drops what it holds before it tries to load
get_rerank_model_drops_first(model, name, n, model_name, load_ok) ==
    LET actual_model_name == Get(RERANK_MODEL_ALIASES, model_name, model_name)
    IN  IF model = NoHandle \/ name # actual_model_name
        THEN IF load_ok
             THEN [raised |-> FALSE,
                   ret    |-> NewHandle(actual_model_name, n),
                   model  |-> NewHandle(actual_model_name, n),
                   name   |-> actual_model_name,
                   nloads |-> n + 1]
             ELSE [raised |-> TRUE, ret |-> NoHandle,
                   model |-> NoHandle, name |-> NoneName, nloads |-> n]
        ELSE [raised |-> FALSE, ret |-> model,
              model |-> model, name |-> name, nloads |-> n]

\* get_rerank_model(model_name) on the cache slot (model, name) after n loads;
\* load_ok: whether CrossEncoder(actual_model_name) succeeds if it is called.
\* Result: raised, the handle returned, and the slot and load count afterwards.
get_rerank_model(model, name, n, model_name, load_ok) ==
    LET actual_model_name == Get(RERANK_MODEL_ALIASES, model_name, model_name)
    IN  IF model = NoHandle \/ name # actual_model_name
        THEN IF load_ok
             THEN [raised |-> FALSE,
                   ret    |-> NewHandle(actual_model_name, n),
                   model  |-> NewHandle(actual_model_name, n),
                   name   |-> actual_model_name,
                   nloads |-> n + 1]
             ELSE [raised |-> TRUE, ret |-> NoHandle,
                   model |-> model, name |-> name, nloads |-> n]
        ELSE [raised |-> FALSE, ret |-> model,
              model |-> model, name |-> name, nloads |-> n]

\* one of the two cache slots
Slot(model, name) == [model |-> model, name |-> name]
EmptySlot == Slot(NoHandle, NoneName)

\* a clear that forgets the handles and keeps the names
clear_cache_handles_only(emb, rr) ==
    [emb |-> Slot(NoHandle, emb.name), rr |-> Slot(NoHandle, rr.name)]

\* clear_cache() on the two slots: all four globals become None
clear_cache(emb, rr) == [emb |-> EmptySlot, rr |-> EmptySlot]

(* --------------- scripts/rerank_with_crossencoder.py ------------------ *)
\* get_reranker(model_name) on the script's own slot (cache, name); env is
\* os.environ's RERANK_MODEL.  "x or y" takes y when x is None or "".
get_reranker(cache, name, n, model_name_arg, env, load_ok) ==
    LET model_name ==
            IF model_name_arg \notin {NoneName, ""} THEN model_name_arg
            ELSE IF env # NoneName THEN env
            ELSE SCRIPT_DEFAULT_RERANK_MODEL
    IN  IF cache = NoHandle \/ name # model_name
        THEN IF load_ok
             THEN [raised |-> FALSE,
                   ret    |-> NewHandle(model_name, n),
                   model  |-> NewHandle(model_name, n),
                   name   |-> model_name,
                   nloads |-> n + 1]
             ELSE [raised |-> TRUE, ret |-> NoHandle,
                   model |-> cache, name |-> name, nloads |-> n]
        ELSE [raised |-> FALSE, ret |-> cache,
              model |-> cache, name |-> name, nloads |-> n]

(* ------------------------ the cross-encoder --------------------------- *)
ScoreVals == 0..MaxScore

\* model.predict(pairs): one score per pair, in order; f is the model's
\* scoring function on the pairs it is asked about
Predict(f, ps) == [i \in 1..Len(ps) |-> f[ps[i]]]

\* [[question, c["text"]] for c in candidates]   (every c has the key)
EnginePairs(question, candidates) ==
    [i \in 1..Len(candidates) |-> <<question, candidates[i].text>>]

\* [[question, chunk.get("text", "")] for chunk in chunks]
GetPairs(question, chunks) ==
    [i \in 1..Len(chunks) |-> <<question, Get(chunks[i], "text", "")>>]

\* scores handed out in the reverse order of the chunks
AddScoresReversed(chunks, scores) ==
    [i \in 1..Len(chunks) |->
        IF i <= Len(scores)
        THEN SetKey(chunks[i], "rerank_score", scores[Len(scores) + 1 - i])
        ELSE chunks[i]]

\* for c, s in zip(chunks, scores): c["rerank_score"] = float(s)
AddScores(chunks, scores) ==
    [i \in 1..Len(chunks) |->
        IF i <= Len(scores)
        THEN SetKey(chunks[i], "rerank_score", scores[i])
        ELSE chunks[i]]

\* copies scored in the reverse order of the chunks
ScoredCopiesReversed(chunks, scores) ==
    [i \in 1..Min(Len(chunks), Len(scores)) |->
        SetKey(chunks[i], "rerank_score", scores[Len(scores) + 1 - i])]

\* the copies of rerank_improved.py: one scored copy per zipped pair
ScoredCopies(chunks, scores) ==
    [i \in 1..Min(Len(chunks), Len(scores)) |->
        SetKey(chunks[i], "rerank_score", scores[i])]

\* an insertion that puts x in front of the elements of equal score
RECURSIVE InsertDescBeforeTies(_, _)
InsertDescBeforeTies(sorted, x) ==
    IF Len(sorted) = 0 THEN <<x>>
    ELSE IF Head(sorted).rerank_score > x.rerank_score
         THEN <<Head(sorted)>> \o InsertDescBeforeTies(Tail(sorted), x)
         ELSE <<x>> \o sorted

\* no sort at all: the list as it came
NotSorted(s) == s

\* sorted(..., key=rerank_score, reverse=True): Python's sort is stable, so
\* an element goes behind every element whose score is not smaller
RECURSIVE InsertDesc(_, _)
InsertDesc(sorted, x) ==
    IF Len(sorted) = 0 THEN <<x>>
    ELSE IF Head(sorted).rerank_score >= x.rerank_score
         THEN <<Head(sorted)>> \o InsertDesc(Tail(sorted), x)
         ELSE <<x>> \o sorted

RECURSIVE SortedByScoreDesc(_)
SortedByScoreDesc(s) ==
    IF Len(s) = 0 THEN <<>>
    ELSE InsertDesc(SortedByScoreDesc(SubSeq(s, 1, Len(s) - 1)), s[Len(s)])

\* what a re-rank call leaves behind: whether it raised, what it returned,
\* the caller's list afterwards, the pairs predict() was given (asked: whether
\* predict() was called at all)
Outcome(raised, out, chunks, asked, ps) ==
    [raised |-> raised, out |-> out, chunks |-> chunks,
     asked |-> asked, pairs |-> ps]

\* RagQueryEngine.rerank(question, candidates) with self.top_n_rerank = top_n
rerank(top_n, question, candidates, f, predict_ok) ==
    IF Len(candidates) = 0
    THEN Outcome(FALSE, <<>>, candidates, FALSE, <<>>)
    ELSE IF \E i \in 1..Len(candidates) : "text" \notin DOMAIN candidates[i]
    THEN Outcome(TRUE, <<>>, candidates, FALSE, <<>>)      \* KeyError
    ELSE LET ps == EnginePairs(question, candidates)
         IN  IF ~predict_ok
             THEN Outcome(TRUE, <<>>, candidates, TRUE, ps)
             ELSE LET scores == Predict(f, ps)
                      scored == AddScores(candidates, scores)
                      candidates_sorted == SortedByScoreDesc(scored)
                  IN  Outcome(FALSE, Take(candidates_sorted, top_n),
                              scored, TRUE, ps)

\* a scoring part that writes the scores into the caller's dicts
rerank_chunks_scored_in_place(question, chunks, top_n, f, predict_ok) ==
    LET ps == GetPairs(question, chunks)
    IN  IF ~predict_ok
        THEN Outcome(TRUE, <<>>, chunks, TRUE, ps)
        ELSE LET scores == Predict(f, ps)
                 scored == AddScores(chunks, scores)
             IN  Outcome(FALSE, Take(SortedByScoreDesc(scored), top_n),
                         scored, TRUE, ps)

\* the scoring part of rag.rerank_improved.rerank_chunks, after the model
\* was obtained (lines 60-85); the input list is left as it was
rerank_chunks_scored(question, chunks, top_n, f, predict_ok) ==
    LET ps == GetPairs(question, chunks)
    IN  IF ~predict_ok
        THEN Outcome(TRUE, <<>>, chunks, TRUE, ps)
        ELSE LET scores == Predict(f, ps)
                 scored_chunks == ScoredCopies(chunks, scores)
                 scored_chunks_sorted == SortedByScoreDesc(scored_chunks)
             IN  Outcome(FALSE, Take(scored_chunks_sorted, top_n),
                         chunks, TRUE, ps)

\* the scoring part of scripts/rerank_with_crossencoder.rerank_chunks
\* (lines 65-78); scores are written into the caller's dicts
script_rerank_chunks_scored(query, chunks, top_n, f, predict_ok) ==
    LET ps == GetPairs(query, chunks)
    IN  IF ~predict_ok
        THEN Outcome(TRUE, <<>>, chunks, TRUE, ps)
        ELSE LET scores == Predict(f, ps)
                 scored == AddScores(chunks, scores)
                 sorted_chunks == SortedByScoreDesc(scored)
             IN  Outcome(FALSE, Take(sorted_chunks, top_n), scored, TRUE, ps)

\* rerank_chunks without its early return for an empty list
rerank_chunks_no_early_return(question, chunks, top_n, model_name, model, name, n, load_ok, f, predict_ok) ==
    LET mn == IF model_name = NoneName THEN DEFAULT_RERANK_MODEL
              ELSE model_name
        actual_model_name == IF mn \in DOMAIN RERANK_MODELS
                             THEN RERANK_MODELS[mn] ELSE mn
        g == get_rerank_model(model, name, n, actual_model_name, load_ok)
    IN  [res   |-> IF g.raised
                   THEN Outcome(TRUE, <<>>, chunks, FALSE, <<>>)
                   ELSE rerank_chunks_scored(question, chunks, top_n,
                                             f, predict_ok),
         model |-> g.model, name |-> g.name, nloads |-> g.nloads]

\* rag.rerank_improved.rerank_chunks(question, chunks, top_n, model_name) on
\* the model cache slot (model, name) after n loads
rerank_chunks(question, chunks, top_n, model_name, model, name, n, load_ok, f, predict_ok) ==
    IF Len(chunks) = 0
    THEN [res   |-> Outcome(FALSE, <<>>, chunks, FALSE, <<>>),
          model |-> model, name |-> name, nloads |-> n]
    ELSE LET mn == IF model_name = NoneName THEN DEFAULT_RERANK_MODEL
                   ELSE model_name
             actual_model_name == IF mn \in DOMAIN RERANK_MODELS
                                  THEN RERANK_MODELS[mn] ELSE mn
             g == get_rerank_model(model, name, n, actual_model_name, load_ok)
         IN  [res   |-> IF g.raised
                        THEN Outcome(TRUE, <<>>, chunks, FALSE, <<>>)
                        ELSE rerank_chunks_scored(question, chunks, top_n,
                                                  f, predict_ok),
              model |-> g.model, name |-> g.name, nloads |-> g.nloads]

\* scripts/rerank_with_crossencoder.rerank_chunks(query, chunks, top_n) on the
\* script's slot (cache, name) after n loads
script_rerank_chunks(query, chunks, top_n, cache, name, n, env, load_ok, f, predict_ok) ==
    IF Len(chunks) = 0
    THEN [res   |-> Outcome(FALSE, <<>>, chunks, FALSE, <<>>),
          model |-> cache, name |-> name, nloads |-> n]
    ELSE LET g == get_reranker(cache, name, n, NoneName, env, load_ok)
         IN  [res   |-> IF g.raised
                        THEN Outcome(TRUE, <<>>, chunks, FALSE, <<>>)
                        ELSE script_rerank_chunks_scored(query, chunks, top_n,
                                                         f, predict_ok),
              model |-> g.model, name |-> g.name, nloads |-> g.nloads]

(* ------------- one call of a re-rank function (SpecRerank) ------------ *)
\* no answer() call in progress
NoResult == [answer |-> "<no result>", chunks |-> <<>>]
\* None where a dict (timing_info) is expected
NoneDict == [none |-> TRUE]
AnswerIdle ==
    /\ pc = "idle"
    /\ arg_search_query = NoneStr /\ arg_question = NoneStr
    /\ measure_time = FALSE /\ timing_info = NoneDict
    /\ ans_search_query = NoneStr /\ ans_question = NoneStr
    /\ ans_llm_callable = "call_llm_default"
    /\ ans_candidates = <<>> /\ ans_top_chunks = <<>>
    /\ result = NoResult
    /\ log = <<>>

\* the pairs a call will ask the cross-encoder about
EngineAsked(question, candidates) ==
    IF \A i \in 1..Len(candidates) : "text" \in DOMAIN candidates[i]
    THEN Range(EnginePairs(question, candidates)) ELSE {}

GetAsked(question, chunks) == Range(GetPairs(question, chunks))

\* inputs: lists of at most MaxLen chunk dicts with ids 1..n, each with an
\* empty text, a non-empty text or no "text" key at all
NoTextKey == "<no text key>"
TextChoices == {"", "a", "b", NoTextKey}
Chunk(i, t) == IF t = NoTextKey THEN [id |-> i] ELSE [id |-> i, text |-> t]
ChunkLists ==
    UNION {{[i \in 1..n |-> Chunk(i, ts[i])] : ts \in [1..n -> TextChoices]}
           : n \in 0..MaxLen}
TopNs == (0 - 1)..(MaxLen + 1)
RerankQuestions == {<<"h", " ", "q">>}

PrimedHandle(name) == [name |-> name, serial |-> 1]

\* os.getenv("RERANK_MODEL", default)
getenv(env, default) == IF env # NoneName THEN env ELSE default

\* line 38 of rag/query_improved.py, run when the module is imported
ImportedRerankModelName(env) ==
    getenv(env, "cross-encoder/ms-marco-MiniLM-L-6-v2")

\* a RagQueryEngine: self.embed_model and self.rerank_model, with a record
\* of whether rerank_model_name was passed and of RERANK_MODEL at the time
Engine(embed_model, rerank_model, explicit, env) ==
    [embed_model |-> embed_model, rerank_model |-> rerank_model,
     explicit |-> explicit, env_at_init |-> env]

\* the engine constructed first, with defaults and RERANK_MODEL unset
PrimedEngine ==
    Engine(PrimedHandle(EMBEDDING_MODEL_NAME),
           PrimedHandle(RERANK_MODEL_ALIASES.fast), FALSE, NoneName)

\* no predict() call yet
NoPredict == [model |-> NoHandle, caller |-> 0]
PredictOn(model, caller) == [model |-> model, caller |-> caller]

\* an engine that scores with whatever the cache holds at the moment
CachedScorer(e) == _rerank_model

\* line 145: self.rerank_model.predict, the handle engine e kept
EngineScorer(e) == engines[e].rerank_model

\* the threads that may call the cache concurrently
Threads == {1, 2}
IdleThread ==
    [pc |-> "idle", op |-> "none", actual |-> NoneName, ret |-> NoHandle,
     raced |-> FALSE]
NoThreads == [t \in Threads |-> IdleThread]

InitRerank ==
    /\ rr_impl \in {"engine", "improved", "script"}
    /\ rr_given \in ChunkLists
    /\ rr_chunks = rr_given
    /\ rr_question \in RerankQuestions
    /\ rr_top_n \in TopNs
    /\ top_n_rerank = IF rr_impl = "engine" THEN rr_top_n
                      ELSE DEFAULT_TOP_N_RERANK
    /\ top_k_retrieve = DEFAULT_TOP_K_RETRIEVE
    /\ store = <<>>
    /\ AnswerIdle
    /\ rr_model_name \in IF rr_impl = "improved"
                         THEN {NoneName, "balanced"}
                         ELSE {NoneName}
    /\ env_RERANK_MODEL \in IF rr_impl = "script"
                            THEN {NoneName, RERANK_MODEL_ALIASES.best}
                            ELSE {NoneName}
    \* both caches empty, or both holding the model loaded first; an engine
    \* exists only after its constructor has loaded the models
    /\ \E primed \in (IF rr_impl = "engine" THEN {TRUE} ELSE BOOLEAN) :
         IF primed
         THEN /\ _embedding_model = PrimedHandle(EMBEDDING_MODEL_NAME)
              /\ _embedding_model_name = EMBEDDING_MODEL_NAME
              /\ _rerank_model = PrimedHandle(RERANK_MODEL_ALIASES.fast)
              /\ _rerank_model_name = RERANK_MODEL_ALIASES.fast
              /\ _rerank_model_cache = PrimedHandle(SCRIPT_DEFAULT_RERANK_MODEL)
              /\ script_rerank_model_name = SCRIPT_DEFAULT_RERANK_MODEL
              /\ nloads = 1
         ELSE /\ _embedding_model = NoHandle
              /\ _embedding_model_name = NoneName
              /\ _rerank_model = NoHandle
              /\ _rerank_model_name = NoneName
              /\ _rerank_model_cache = NoHandle
              /\ script_rerank_model_name = NoneName
              /\ nloads = 0
    /\ cache_log = <<>>
    /\ rr_pc = "ready"
    /\ rr_out = <<>>
    /\ pairs = <<>>
    /\ xenc = <<>>
    /\ predict_calls = 0
    /\ predict_on = NoPredict
    /\ thr = NoThreads
    /\ engines = IF rr_impl = "engine" THEN <<PrimedEngine>> ELSE <<>>
    /\ RERANK_MODEL_NAME = ImportedRerankModelName(env_RERANK_MODEL)

\* the caller's view after the call
Finish(r, f, on) ==
    /\ predict_on' = IF r.asked THEN on ELSE predict_on
    /\ rr_pc' = IF r.raised THEN "raised" ELSE "returned"
    /\ rr_out' = r.out
    /\ rr_chunks' = r.chunks
    /\ pairs' = r.pairs
    /\ predict_calls' = IF r.asked THEN predict_calls + 1 ELSE predict_calls
    /\ xenc' = IF r.asked /\ ~r.raised THEN f ELSE xenc

CallEngineRerank ==
    /\ rr_pc = "ready" /\ rr_impl = "engine"
    /\ \E predict_ok \in BOOLEAN,
          f \in [EngineAsked(rr_question, rr_chunks) -> ScoreVals] :
         Finish(rerank(top_n_rerank, rr_question, rr_chunks, f, predict_ok),
                f, PredictOn(EngineScorer(1), 1))
    /\ UNCHANGED <<cache_vars, rr_args, env_RERANK_MODEL, engine_vars,
                   answer_vars>>

CallRerankChunks ==
    /\ rr_pc = "ready" /\ rr_impl = "improved"
    /\ nloads < MaxLoads
    /\ \E load_ok \in BOOLEAN, predict_ok \in BOOLEAN,
          f \in [GetAsked(rr_question, rr_chunks) -> ScoreVals] :
         LET r == rerank_chunks(rr_question, rr_chunks, rr_top_n, rr_model_name,
                                _rerank_model, _rerank_model_name, nloads,
                                load_ok, f, predict_ok)
         IN  /\ Finish(r.res, f, PredictOn(r.model, 0))
             /\ _rerank_model' = r.model
             /\ _rerank_model_name' = r.name
             /\ nloads' = r.nloads
    /\ UNCHANGED <<_embedding_model, _embedding_model_name, cache_log, thr,
                   _rerank_model_cache, script_rerank_model_name, rr_args,
                   env_RERANK_MODEL, engine_vars, answer_vars>>

CallScriptRerankChunks ==
    /\ rr_pc = "ready" /\ rr_impl = "script"
    /\ nloads < MaxLoads
    /\ \E load_ok \in BOOLEAN, predict_ok \in BOOLEAN,
          f \in [GetAsked(rr_question, rr_chunks) -> ScoreVals] :
         LET r == script_rerank_chunks(rr_question, rr_chunks, rr_top_n,
                                       _rerank_model_cache,
                                       script_rerank_model_name, nloads,
                                       env_RERANK_MODEL, load_ok, f, predict_ok)
         IN  /\ Finish(r.res, f, PredictOn(r.model, 0))
             /\ _rerank_model_cache' = r.model
             /\ script_rerank_model_name' = r.name
             /\ nloads' = r.nloads
    /\ UNCHANGED <<_embedding_model, _embedding_model_name, cache_log, thr,
                   _rerank_model, _rerank_model_name, rr_args,
                   env_RERANK_MODEL, engine_vars, answer_vars>>

NextRerank == CallEngineRerank \/ CallRerankChunks \/ CallScriptRerankChunks

SpecRerank == InitRerank /\ [][NextRerank]_vars

(* ------------------- claims about re-ranking -------------------------- *)
Returned == rr_pc = "returned"

\* the top_n the called function used
UsedTopN == IF rr_impl = "engine" THEN top_n_rerank ELSE rr_top_n

\* the text the called function paired with the query for chunk c
PassedText(c) == IF rr_impl = "engine" THEN c.text ELSE Get(c, "text", "")

\* c without its rerank_score key
Unscored(c) == [k \in (DOMAIN c) \ {"rerank_score"} |-> c[k]]

\* position in the given list of the chunk with this id (ids are unique)
Pos(id) == CHOOSE j \in 1..Len(rr_given) : rr_given[j].id = id

\* C5: for a non-empty candidate list and a positive top_n the result has
\* exactly min(top_n, len(candidates)) elements.
C5_Length ==
    (Returned /\ Len(rr_given) > 0 /\ UsedTopN > 0)
        => Len(rr_out) = Min(UsedTopN, Len(rr_given))

\* a call whose top_n exceeds the candidate count, capped at the count
C5_Witness ==
    /\ Returned /\ rr_impl \in {"engine", "improved"}
    /\ Len(rr_given) = 2 /\ UsedTopN > Len(rr_given)
    /\ Len(rr_out) = 2

\* C6: the result is sorted by rerank_score descending and chunks with
\* equal scores keep the relative order they had in the input.
C6_SortedStable ==
    Returned =>
        \A i, j \in 1..Len(rr_out) :
            i < j =>
                /\ rr_out[i].rerank_score >= rr_out[j].rerank_score
                /\ rr_out[i].rerank_score = rr_out[j].rerank_score
                       => Pos(rr_out[i].id) < Pos(rr_out[j].id)

\* a result in which the sort moved a chunk forward and kept a tie in order
C6_Witness ==
    /\ Returned /\ Len(rr_out) = 3
    /\ rr_out[1].id = 2 /\ rr_out[2].id = 1 /\ rr_out[3].id = 3
    /\ rr_out[2].rerank_score = rr_out[3].rerank_score
    /\ rr_out[1].rerank_score > rr_out[2].rerank_score

\* C7: every result element is an input candidate (same keys and values
\* apart from rerank_score, no id twice) and carries exactly the score the
\* cross-encoder returned for that candidate's (query, text) pair.
C7_NoFabrication ==
    Returned =>
        /\ \A i \in 1..Len(rr_out) :
              \E j \in 1..Len(rr_given) :
                  /\ Unscored(rr_out[i]) = rr_given[j]
                  /\ rr_out[i].rerank_score
                         = xenc[<<rr_question, PassedText(rr_given[j])>>]
        /\ \A i, j \in 1..Len(rr_out) :
              rr_out[i].id = rr_out[j].id => i = j

\* a result with two chunks of different texts and different scores
C7_Witness ==
    /\ Returned /\ Len(rr_out) >= 2
    /\ rr_out[1].text # rr_out[2].text
    /\ rr_out[1].rerank_score # rr_out[2].rerank_score

\* C8 (as claimed): the cross-encoder is never given a pair with an empty
\* text and no chunk with a missing or empty text is in the result.
C8_NoEmptyText ==
    /\ \A i \in 1..Len(pairs) : pairs[i][2] # ""
    /\ Returned =>
          \A i \in 1..Len(rr_out) :
              "text" \in DOMAIN rr_out[i] /\ rr_out[i].text # ""

\* what the called function returns for chunks with the model scoring as it
\* did in the call
RerankAgain(chunks) ==
    CASE rr_impl = "engine" ->
            rerank(top_n_rerank, rr_question, chunks, xenc, TRUE).out
      [] rr_impl = "improved" ->
            rerank_chunks_scored(rr_question, chunks, rr_top_n, xenc, TRUE).out
      [] rr_impl = "script" ->
            script_rerank_chunks_scored(rr_question, chunks, rr_top_n,
                                        xenc, TRUE).out

IdSet(s) == {s[i].id : i \in 1..Len(s)}
ScoreSeq(s) == [i \in 1..Len(s) |-> s[i].rerank_score]

\* C9 (as claimed): permuting the input yields the same set of result ids.
C9_SameIdSet ==
    Returned =>
        \A p \in Perms(rr_given) : IdSet(RerankAgain(p)) = IdSet(rr_out)

\* the whole scored list in rank order, and whether the cut after the
\* result separates two different scores (or cuts nothing off)
FullRanking == SortedByScoreDesc(
                   [i \in 1..Len(rr_given) |->
                       SetKey(rr_given[i], "rerank_score",
                              xenc[<<rr_question, PassedText(rr_given[i])>>])])
NoTieAtCut ==
    LET k == Len(rr_out)
    IN  \/ k = 0
        \/ k = Len(rr_given)
        \/ FullRanking[k].rerank_score # FullRanking[k + 1].rerank_score

\* C9 (amended): permuting the input yields the same sequence of result
\* scores, and the same set of result ids unless the cut falls between two
\* candidates of equal score.
C9_SameScoresAndIdsUnlessTieAtCut ==
    Returned =>
        \A p \in Perms(rr_given) :
            LET again == RerankAgain(p)
            IN  /\ ScoreSeq(again) = ScoreSeq(rr_out)
                /\ NoTieAtCut => IdSet(again) = IdSet(rr_out)

\* a truncating call on three candidates with no tie at the cut
C9_Witness ==
    /\ Returned /\ Len(rr_given) = 3 /\ Len(rr_out) = 2
    /\ NoTieAtCut
    /\ rr_out[1].id = 2 /\ rr_out[2].id = 3

\* C10: re-ranking an empty list returns an empty list without raising,
\* without calling predict() and without loading a model or touching a cache.
C10_EmptyInput ==
    [][(rr_pc = "ready" /\ Len(rr_given) = 0)
          => /\ rr_pc' = "returned"
             /\ rr_out' = <<>>
             /\ predict_calls' = predict_calls
             /\ UNCHANGED cache_vars]_vars

\* rerank_chunks has returned for an empty list and the cache is still empty
C10_Witness ==
    /\ Returned /\ rr_impl = "improved" /\ Len(rr_given) = 0
    /\ _rerank_model = NoHandle /\ rr_top_n = 0

\* the (id, rerank_score) pairs of a result, in order
IdScoreSeq(s) == [i \in 1..Len(s) |-> <<s[i].id, s[i].rerank_score>>]

AllHaveText(chunks) ==
    \A i \in 1..Len(chunks) : "text" \in DOMAIN chunks[i]

\* C26: on candidates that all carry a text, with the model scoring as it
\* did in the call and the same top_n, the engine's rerank and the two
\* rerank_chunks functions return the same sequence of (id, rerank_score)
\* pairs, which is the sequence the call returned.
C26_ImplementationsAgree ==
    (Returned /\ Len(rr_given) > 0 /\ AllHaveText(rr_given)) =>
        LET engine == rerank(UsedTopN, rr_question, rr_given, xenc, TRUE)
            improved == rerank_chunks_scored(rr_question, rr_given, UsedTopN,
                                             xenc, TRUE)
            script == script_rerank_chunks_scored(rr_question, rr_given,
                                                  UsedTopN, xenc, TRUE)
        IN  /\ ~engine.raised /\ ~improved.raised /\ ~script.raised
            /\ IdScoreSeq(engine.out) = IdScoreSeq(rr_out)
            /\ IdScoreSeq(improved.out) = IdScoreSeq(rr_out)
            /\ IdScoreSeq(script.out) = IdScoreSeq(rr_out)

\* a call of the script's function that reordered and cut three candidates
C26_Witness ==
    /\ Returned /\ rr_impl = "script"
    /\ Len(rr_given) = 3 /\ AllHaveText(rr_given)
    /\ Len(rr_out) = 2 /\ rr_out[1].id = 3
    /\ rr_out[1].rerank_score > rr_out[2].rerank_score

\* C29: rag.rerank_improved.rerank_chunks leaves the caller's list as it
\* was given (length, order, every dict, no rerank_score added), however the
\* call ends, so the same call on the list afterwards returns the same.
C29_InputUnchanged ==
    (rr_impl = "improved" /\ rr_pc # "ready") =>
        /\ rr_chunks = rr_given
        /\ \A i \in 1..Len(rr_chunks) :
              "rerank_score" \notin DOMAIN rr_chunks[i]
        /\ Returned => RerankAgain(rr_chunks) = rr_out

\* rerank_chunks has returned two scored copies of three chunks
C29_Witness ==
    /\ Returned /\ rr_impl = "improved"
    /\ Len(rr_given) = 3 /\ Len(rr_out) = 2
    /\ "rerank_score" \in DOMAIN rr_out[1]
    /\ rr_out[1].id = 2

(* ------------------- RagQueryEngine (query_improved.py) --------------- *)
\* the messages of the three early returns: "שאלה ריקה.",
\* "לא נמצאו קטעים רלוונטיים במסמכים." and "לא הצלחתי לדרג קטעים רלוונטיים."
EMPTY_QUESTION_MSG == "empty question."
NO_CANDIDATES_MSG == "no relevant passages were found in the documents."
COULD_NOT_RANK_MSG == "could not rank relevant passages."

\* a query without the WHERE clause
AllRows(rows) == rows

\* WHERE embedding IS NOT NULL
Eligible(rows) == SelectSeq(rows, LAMBDA r : r.embedding)

\* ORDER BY embedding <=> q: ascending distance, rows of equal distance in
\* whatever order the database delivers them
OrderedByDistance(rows) ==
    {p \in Perms(rows) :
        \A i, j \in 1..Len(p) : i < j => p[i].distance <= p[j].distance}

\* a cut that keeps the last k rows
LimitFromEnd(rows, k) ==
    SubSeq(rows, Len(rows) - Min(k, Len(rows)) + 1, Len(rows))

\* LIMIT k
Limit(rows, k) == SubSeq(rows, 1, Min(k, Len(rows)))

\* retrieve_candidates: the dicts built from the rows the query delivered,
\* ordered being the eligible rows in the order ORDER BY put them
retrieve_candidates(top_k, ordered) ==
    LET fetched == Limit(ordered, top_k)
    IN  [i \in 1..Len(fetched) |->
            [id |-> fetched[i].id, text |-> fetched[i].text,
             distance |-> fetched[i].distance]]

\* what answer() can be called with
SearchQueryArgs == {NoneStr, <<>>, <<" ", "\t">>, <<"h", " ", "q">>}
QuestionArgs == {NoneStr, <<"q">>}
LlmCallables == {"call_llm_default", "generator"}
\* what a generator may return: any text, the text of a sentinel included
Answers == {"an answer", NO_CANDIDATES_MSG}

Sentinel(msg) == [answer |-> msg, chunks |-> <<>>]

\* one entry of the call log
Called(stage, query, given, raised, ret, out) ==
    [stage |-> stage, query |-> query, given |-> given, raised |-> raised,
     ret |-> ret, out |-> out]

\* a blank check that forgets to strip
IsEmptyUnstripped(s) == Len(s) = 0

\* "if not search_query.strip()"
IsBlank(s) == Len(Strip(s)) = 0

\* a check that never finds a list empty
NeverEmpty(chunks) == FALSE

\* "if not candidates" in answer()
NoCandidates(chunks) == Len(chunks) = 0

\* "if not top_chunks" in answer()
NothingRanked(chunks) == Len(chunks) = 0

\* every retrieved candidate instead of the re-ranked ones
AllCandidates == ans_candidates

\* the chunk list answer() hands to llm_callable
GeneratorChunks == ans_top_chunks

\* the chunk list answer() returns beside the generator's output
ReturnedChunks == ans_top_chunks

\* time.time() - start: what the clock says a stage took
Durations == 0..MaxDur

\* {} (the timing_info of a call with measure_time=True, at first)
EmptyDict == <<>>

\* a call that forwards the search query whatever question is
QuestionIgnored(sq, q) == sq

\* a stage that is tried again after it raised
Retry(stage) == stage

\* where answer() is after a stage raised: nothing in lines 186-229 catches
\* an exception, so it leaves answer()
Propagate(stage) == "raised"

\* a timing_info that is a dict whether or not time is measured
AlwaysDict(mt) == EmptyDict

\* line 181: timing_info = {} if measure_time else None
InitialTimingInfo(mt) == IF mt THEN EmptyDict ELSE NoneDict

\* a default generator that answers like any other
RaisesOnlyOnFailure(llm, gen_ok) == ~gen_ok

\* whether llm_callable(question, top_chunks) raises: call_llm_default
\* always does (NotImplementedError), an injected generator when it fails
Raises(llm, gen_ok) == llm = "call_llm_default" \/ ~gen_ok

\* lines 176-177: question defaults to search_query
DefaultedQuestion(sq, q) == IF q = NoneStr THEN sq ELSE q

\* lines 178-179: search_query defaults to (the defaulted) question
DefaultedSearchQuery(sq, q) ==
    IF sq = NoneStr THEN DefaultedQuestion(sq, q) ELSE sq

\* totals that forget the earlier stage
RerankTimeOnly(ti, d, n) ==
    SetKey(SetKey(SetKey(ti, "rerank_time", d), "num_final_chunks", n),
           "total_chunks_time", d)

\* lines 194-196
TimedRetrieve(ti, d, n) ==
    SetKey(SetKey(ti, "retrieve_time", d), "num_candidates", n)

\* lines 209-212
TimedRerank(ti, d, n) ==
    SetKey(SetKey(SetKey(ti, "rerank_time", d), "num_final_chunks", n),
           "total_chunks_time", ti["retrieve_time"] + d)

\* lines 225-227
TimedLlm(ti, d) ==
    SetKey(SetKey(ti, "llm_time", d),
           "total_time", ti["total_chunks_time"] + d)

\* answer(sq, q, llm, mt), lines 176-184: the defaulting of the two texts,
\* the making of timing_info and the blank check
\* an answer() that writes the default it applied back into the engine
AnswerEntryStoresDefault(sq, q, llm, mt) ==
    LET question1 == DefaultedQuestion(sq, q)
        search_query1 == DefaultedSearchQuery(sq, q)
    IN  /\ arg_search_query' = sq /\ arg_question' = q
        /\ measure_time' = mt
        /\ timing_info' = InitialTimingInfo(mt)
        /\ ans_question' = question1
        /\ ans_search_query' = search_query1
        /\ ans_llm_callable' = llm
        /\ IF search_query1 = NoneStr
           THEN pc' = "raised" /\ result' = NoResult
           ELSE IF IsBlank(search_query1)
           THEN pc' = "returned" /\ result' = Sentinel(EMPTY_QUESTION_MSG)
           ELSE pc' = "retrieve" /\ result' = NoResult
        /\ log' = <<>>
        /\ pairs' = <<>> /\ xenc' = <<>> /\ predict_calls' = 0
        /\ predict_on' = NoPredict
        /\ top_n_rerank' = IF sq = NoneStr THEN 1 ELSE top_n_rerank
        /\ UNCHANGED <<cache_vars, env_RERANK_MODEL, store, top_k_retrieve,
                       engines, RERANK_MODEL_NAME, rr_vars,
                       ans_candidates, ans_top_chunks>>

AnswerEntry(sq, q, llm, mt) ==
    LET question1 == DefaultedQuestion(sq, q)
        search_query1 == DefaultedSearchQuery(sq, q)
    IN  /\ arg_search_query' = sq /\ arg_question' = q
        /\ measure_time' = mt
        /\ timing_info' = InitialTimingInfo(mt)
        /\ ans_question' = question1
        /\ ans_search_query' = search_query1
        /\ ans_llm_callable' = llm
        /\ IF search_query1 = NoneStr
           THEN \* None.strip(): AttributeError
                pc' = "raised" /\ result' = NoResult
           ELSE IF IsBlank(search_query1)
           THEN pc' = "returned" /\ result' = Sentinel(EMPTY_QUESTION_MSG)
           ELSE pc' = "retrieve" /\ result' = NoResult
        /\ log' = <<>>
        /\ pairs' = <<>> /\ xenc' = <<>> /\ predict_calls' = 0
        /\ predict_on' = NoPredict
        /\ UNCHANGED <<cache_vars, env_RERANK_MODEL, engine_vars, rr_vars,
                       ans_candidates, ans_top_chunks>>

\* answer(...) with measure_time left at its default, False
AnswerCall ==
    /\ pc = "idle"
    /\ \E sq \in SearchQueryArgs, q \in QuestionArgs, llm \in LlmCallables :
         AnswerEntry(sq, q, llm, FALSE)

\* answer(..., measure_time=True), as scripts/comprehensive_test_suite.py
\* calls it
AnswerCallTimed ==
    /\ pc = "idle"
    /\ \E sq \in {<<" ", "\t">>, <<"h", " ", "q">>} :
         AnswerEntry(sq, <<"q">>, "generator", TRUE)

\* lines 190-199: the retrieval stage and the check of its result; db_ok:
\* whether the embedding and the query succeed
AnswerRetrieve ==
    /\ pc = "retrieve"
    /\ \E db_ok \in BOOLEAN, ordered \in OrderedByDistance(Eligible(store)),
          d \in (IF measure_time THEN Durations ELSE {0}) :
         IF ~db_ok
         THEN /\ pc' = Propagate("retrieve")
              /\ log' = Append(log, Called("retrieve", ans_search_query, <<>>,
                                           TRUE, <<>>, ""))
              /\ UNCHANGED <<ans_candidates, timing_info, result>>
         ELSE LET cands == retrieve_candidates(top_k_retrieve, ordered)
              IN  /\ ans_candidates' = cands
                  \* "given" of this entry: the rows fetchall() delivered
                  /\ log' = Append(log, Called("retrieve", ans_search_query,
                                               Limit(ordered, top_k_retrieve),
                                               FALSE, cands, ""))
                  /\ timing_info' =
                        IF measure_time
                        THEN TimedRetrieve(timing_info, d, Len(cands))
                        ELSE timing_info
                  /\ IF NoCandidates(cands)
                     THEN pc' = "returned"
                          /\ result' = Sentinel(NO_CANDIDATES_MSG)
                     ELSE pc' = "rerank" /\ UNCHANGED result
    /\ UNCHANGED <<cache_vars, env_RERANK_MODEL, engine_vars, rr_vars,
                   arg_search_query, arg_question, measure_time,
                   ans_search_query, ans_question, ans_llm_callable,
                   ans_top_chunks, pairs, xenc, predict_calls, predict_on>>

\* lines 205-215: the re-rank stage and the check of its result
AnswerRerank ==
    /\ pc = "rerank"
    /\ \E predict_ok \in BOOLEAN,
          f \in [EngineAsked(ans_search_query, ans_candidates) -> ScoreVals],
          d \in (IF measure_time THEN Durations ELSE {0}) :
         LET r == rerank(top_n_rerank, ans_search_query, ans_candidates,
                         f, predict_ok)
         IN  /\ ans_candidates' = r.chunks
             /\ timing_info' =
                   IF measure_time /\ ~r.raised
                   THEN TimedRerank(timing_info, d, Len(r.out))
                   ELSE timing_info
             /\ pairs' = r.pairs
             /\ predict_calls' = IF r.asked THEN predict_calls + 1
                                 ELSE predict_calls
             /\ predict_on' = IF r.asked THEN PredictOn(EngineScorer(1), 1)
                              ELSE predict_on
             /\ xenc' = IF r.asked /\ ~r.raised THEN f ELSE xenc
             /\ log' = Append(log, Called("rerank", ans_search_query,
                                          ans_candidates, r.raised, r.out, ""))
             /\ IF r.raised
                THEN pc' = Propagate("rerank")
                     /\ UNCHANGED <<ans_top_chunks, result>>
                ELSE /\ ans_top_chunks' = r.out
                     /\ IF NothingRanked(r.out)
                        THEN pc' = "returned"
                             /\ result' = Sentinel(COULD_NOT_RANK_MSG)
                        ELSE pc' = "llm" /\ UNCHANGED result
    /\ UNCHANGED <<cache_vars, env_RERANK_MODEL, engine_vars, rr_vars,
                   arg_search_query, arg_question, measure_time,
                   ans_search_query, ans_question, ans_llm_callable>>

\* lines 221-229: the generator call and the final return; call_llm_default
\* raises NotImplementedError, an injected generator returns a text or raises
AnswerGenerate ==
    /\ pc = "llm"
    /\ \E gen_ok \in BOOLEAN, out \in Answers,
          d \in (IF measure_time THEN Durations ELSE {0}) :
         LET raises == Raises(ans_llm_callable, gen_ok)
         IN  /\ timing_info' = IF measure_time /\ ~raises
                               THEN TimedLlm(timing_info, d)
                               ELSE timing_info
             /\ log' = Append(log, Called("llm", ans_question, GeneratorChunks,
                                          raises, <<>>,
                                          IF raises THEN "" ELSE out))
             /\ IF raises
                THEN pc' = Propagate("llm") /\ UNCHANGED result
                ELSE /\ pc' = "returned"
                     /\ result' = [answer |-> out, chunks |-> ReturnedChunks]
    /\ UNCHANGED <<cache_vars, env_RERANK_MODEL, engine_vars, rr_vars,
                   arg_search_query, arg_question, measure_time,
                   ans_search_query, ans_question, ans_llm_callable,
                   ans_candidates, ans_top_chunks, pairs, xenc, predict_calls, predict_on>>

\* the call is over: its locals are gone and the caller has its result
AnswerDone ==
    /\ pc \in {"returned", "raised"}
    /\ pc' = "idle"
    /\ arg_search_query' = NoneStr /\ arg_question' = NoneStr
    /\ measure_time' = FALSE /\ timing_info' = NoneDict
    /\ ans_search_query' = NoneStr /\ ans_question' = NoneStr
    /\ ans_llm_callable' = "call_llm_default"
    /\ ans_candidates' = <<>> /\ ans_top_chunks' = <<>>
    /\ result' = NoResult
    /\ log' = <<>>
    /\ pairs' = <<>> /\ xenc' = <<>> /\ predict_calls' = 0
    /\ predict_on' = NoPredict
    /\ UNCHANGED <<cache_vars, env_RERANK_MODEL, engine_vars, rr_vars>>

\* the table: at most MaxRows rows with ids 1..n; a row has an empty or a
\* non-empty text and either an embedding at distance 1 or 2 from the query,
\* or no embedding
RowKinds == {[embedding |-> TRUE, distance |-> 1],
             [embedding |-> TRUE, distance |-> 2],
             [embedding |-> FALSE, distance |-> 0]}
Stores ==
    UNION {{[i \in 1..n |-> [id |-> i, text |-> ts[i],
                             embedding |-> ks[i].embedding,
                             distance |-> ks[i].distance]] :
               ts \in [1..n -> {"", "a"}], ks \in [1..n -> RowKinds]}
           : n \in 0..MaxRows}

\* no re-rank function is being called on its own
RerankUnused ==
    /\ rr_impl = "none" /\ rr_pc = "unused"
    /\ rr_question = <<>> /\ rr_model_name = NoneName /\ rr_top_n = 0
    /\ rr_given = <<>> /\ rr_chunks = <<>> /\ rr_out = <<>>

\* an engine has been constructed over some table: its models are loaded
Init ==
    /\ store \in Stores
    /\ top_k_retrieve \in 1..MaxRows
    /\ top_n_rerank \in 0..MaxRows
    /\ _embedding_model = PrimedHandle(EMBEDDING_MODEL_NAME)
    /\ _embedding_model_name = EMBEDDING_MODEL_NAME
    /\ _rerank_model = PrimedHandle(RERANK_MODEL_ALIASES.fast)
    /\ _rerank_model_name = RERANK_MODEL_ALIASES.fast
    /\ cache_log = <<>>
    /\ _rerank_model_cache = NoHandle
    /\ script_rerank_model_name = NoneName
    /\ env_RERANK_MODEL = NoneName
    /\ nloads = 1
    /\ engines = <<PrimedEngine>>
    /\ RERANK_MODEL_NAME = ImportedRerankModelName(env_RERANK_MODEL)
    /\ AnswerIdle
    /\ RerankUnused
    /\ pairs = <<>> /\ xenc = <<>> /\ predict_calls = 0
    /\ predict_on = NoPredict
    /\ thr = NoThreads

Next ==
    \/ AnswerCall
    \/ AnswerRetrieve
    \/ AnswerRerank
    \/ AnswerGenerate
    \/ AnswerDone

Spec == Init /\ [][Next]_vars

\* an engine with the default top_k_retrieve, ranking none or the default
\* number of chunks, some of whose callers measure time
InitTimed ==
    /\ store \in Stores
    /\ top_k_retrieve = DEFAULT_TOP_K_RETRIEVE
    /\ top_n_rerank \in {0, DEFAULT_TOP_N_RERANK}
    /\ _embedding_model = PrimedHandle(EMBEDDING_MODEL_NAME)
    /\ _embedding_model_name = EMBEDDING_MODEL_NAME
    /\ _rerank_model = PrimedHandle(RERANK_MODEL_ALIASES.fast)
    /\ _rerank_model_name = RERANK_MODEL_ALIASES.fast
    /\ cache_log = <<>>
    /\ _rerank_model_cache = NoHandle
    /\ script_rerank_model_name = NoneName
    /\ env_RERANK_MODEL = NoneName
    /\ nloads = 1
    /\ engines = <<PrimedEngine>>
    /\ RERANK_MODEL_NAME = ImportedRerankModelName(env_RERANK_MODEL)
    /\ AnswerIdle
    /\ RerankUnused
    /\ pairs = <<>> /\ xenc = <<>> /\ predict_calls = 0
    /\ predict_on = NoPredict
    /\ thr = NoThreads

NextTimed ==
    \/ AnswerCall
    \/ AnswerCallTimed
    \/ AnswerRetrieve
    \/ AnswerRerank
    \/ AnswerGenerate
    \/ AnswerDone

SpecTimed == InitTimed /\ [][NextTimed]_vars

(* ------------------------ claims about answer() ----------------------- *)
\* the log entries of a stage, and the one entry of a stage called once
Calls(stage) == {i \in 1..Len(log) : log[i].stage = stage}
TheCall(stage) == log[CHOOSE i \in Calls(stage) : TRUE]
StageOrder(stage) ==
    CASE stage = "retrieve" -> 1 [] stage = "rerank" -> 2 [] stage = "llm" -> 3

\* C1: a call that returns ends in exactly one of four outcomes, decided in
\* this order: blank query, no candidates, nothing ranked (each the matching
\* sentinel with an empty chunk list and no generator call), else the
\* generator's output with exactly the chunk list the generator was given.
C1_Outcomes ==
    pc = "returned" =>
        IF Len(Strip(ans_search_query)) = 0
        THEN result = Sentinel(EMPTY_QUESTION_MSG) /\ Calls("llm") = {}
        ELSE /\ Cardinality(Calls("retrieve")) = 1
             /\ ~TheCall("retrieve").raised
             /\ IF Len(TheCall("retrieve").ret) = 0
                THEN result = Sentinel(NO_CANDIDATES_MSG) /\ Calls("llm") = {}
                ELSE /\ Cardinality(Calls("rerank")) = 1
                     /\ ~TheCall("rerank").raised
                     /\ IF Len(TheCall("rerank").ret) = 0
                        THEN /\ result = Sentinel(COULD_NOT_RANK_MSG)
                             /\ Calls("llm") = {}
                        ELSE /\ Cardinality(Calls("llm")) = 1
                             /\ ~TheCall("llm").raised
                             /\ result.answer = TheCall("llm").out
                             /\ result.chunks = TheCall("llm").given

\* a successful call whose re-ranking kept one of two candidates
C1_Witness ==
    /\ pc = "returned" /\ Calls("llm") # {}
    /\ Len(TheCall("retrieve").ret) = 2
    /\ Len(result.chunks) = 1
    /\ result.answer = "an answer"

\* C2: in one invocation the stages are called in the order retrieve,
\* re-rank, generator, none twice; re-ranking is given the list retrieval
\* returned and the generator is given the list re-ranking returned.
C2_StageOrder ==
    /\ \A i, j \in 1..Len(log) :
          i < j => StageOrder(log[i].stage) < StageOrder(log[j].stage)
    /\ \A i \in Calls("rerank") :
          /\ i > 1
          /\ log[i - 1].stage = "retrieve" /\ ~log[i - 1].raised
          /\ log[i].given = log[i - 1].ret
    /\ \A i \in Calls("llm") :
          /\ i > 1
          /\ log[i - 1].stage = "rerank" /\ ~log[i - 1].raised
          /\ log[i].given = log[i - 1].ret

\* all three stages have run and re-ranking reordered and cut the list
C2_Witness ==
    /\ Len(log) = 3
    /\ Len(log[2].given) = 2 /\ Len(log[3].given) = 1
    /\ log[3].given[1].id = log[2].given[2].id

\* C3: a call with an empty or whitespace-only search_query returns the
\* empty-question sentinel at once, as a return value, and calls no stage.
C3_BlankQuery ==
    (pc # "idle" /\ ans_search_query # NoneStr
                 /\ Len(Strip(ans_search_query)) = 0)
        => /\ pc = "returned"
           /\ result = Sentinel(EMPTY_QUESTION_MSG)
           /\ log = <<>>
           /\ predict_calls = 0

\* a whitespace-only query has been answered with the sentinel
C3_Witness ==
    /\ pc = "returned" /\ ans_search_query = <<" ", "\t">>
    /\ ans_question = <<"q">>
    /\ result = Sentinel(EMPTY_QUESTION_MSG)
    /\ Len(Eligible(store)) > 0

\* C4: when retrieval yields no candidate the call returns the
\* no-candidates sentinel and calls neither re-ranking nor the generator.
C4_NoCandidates ==
    (Calls("retrieve") # {} /\ ~TheCall("retrieve").raised
                            /\ Len(TheCall("retrieve").ret) = 0)
        => /\ pc = "returned"
           /\ result = Sentinel(NO_CANDIDATES_MSG)
           /\ Calls("rerank") = {} /\ Calls("llm") = {}
           /\ predict_calls = 0

\* retrieval over a table whose only row has no embedding found nothing
C4_Witness ==
    /\ pc = "returned" /\ result = Sentinel(NO_CANDIDATES_MSG)
    /\ Len(store) = 1 /\ Len(log) = 1
    /\ ans_search_query = <<"h", " ", "q">>

(* -------------------- claims about retrieval -------------------------- *)
\* the successful retrievals in the log
Retrieved == {i \in Calls("retrieve") : ~log[i].raised}
Ids(chunks) == {chunks[j].id : j \in 1..Len(chunks)}

\* C11: retrieve_candidates returns at most top_k_retrieve candidates, and
\* each of them is a row of the table whose embedding is not null.
C11_AtMostTopKWithEmbedding ==
    \A i \in Retrieved :
        /\ Len(log[i].ret) <= top_k_retrieve
        /\ \A j \in 1..Len(log[i].ret) :
              \E k \in 1..Len(store) :
                  store[k].id = log[i].ret[j].id /\ store[k].embedding

\* a table of a row without an embedding and a row with one, searched
C11_Witness ==
    /\ Retrieved # {}
    /\ Len(store) = 2 /\ ~store[1].embedding /\ store[2].embedding
    /\ Ids(TheCall("retrieve").ret) = {2}

C18_ErrorsPropagate ==
    /\ \A stage \in {"retrieve", "rerank", "llm"} :
          Cardinality(Calls(stage)) <= 1
    /\ \A i \in 1..Len(log) :
          log[i].raised =>
              /\ i = Len(log)
              /\ pc = "raised"
              /\ result = NoResult
    /\ (Calls("retrieve") # {} /\ TheCall("retrieve").raised)
          => Calls("rerank") = {} /\ Calls("llm") = {} /\ predict_calls = 0
    /\ (Calls("rerank") # {} /\ TheCall("rerank").raised)
          => Calls("llm") = {}

\* retrieval found two candidates and predict() then failed
C18_Witness ==
    /\ pc = "raised" /\ Len(log) = 2
    /\ Len(log[1].ret) = 2
    /\ log[2].stage = "rerank" /\ log[2].raised
    /\ predict_calls = 1

\* C19: retrieval and re-ranking are called with search_query and the
\* generator with question, where an omitted question is search_query and
\* an omitted search_query is question.
C19_QueryAndQuestion ==
    LET search == IF arg_search_query # NoneStr THEN arg_search_query
                  ELSE arg_question
        asked == IF arg_question # NoneStr THEN arg_question
                 ELSE arg_search_query
    IN  /\ \A i \in Calls("retrieve") \cup Calls("rerank") :
              log[i].query = search
        /\ \A i \in Calls("rerank") :
              ~log[i].raised =>
                  \A j \in 1..Len(pairs) : pairs[j][1] = search
        /\ \A i \in Calls("llm") : log[i].query = asked

\* the generator has been called in a call with both texts given
C19_Witness ==
    /\ Calls("llm") # {}
    /\ arg_search_query = <<"h", " ", "q">> /\ arg_question = <<"q">>
    /\ TheCall("retrieve").query = <<"h", " ", "q">>
    /\ TheCall("llm").query = <<"q">>

\* the generator has been called in a call with only question given
C19_WitnessQuestionOnly ==
    /\ Calls("llm") # {}
    /\ arg_search_query = NoneStr /\ arg_question = <<"q">>
    /\ TheCall("retrieve").query = <<"q">>

\* C20: a call with measure_time=True returns a timing_info holding the
\* time of each stage that ran and of no other: none for a blank query,
\* retrieve_time when nothing was retrieved, also rerank_time and
\* total_chunks_time (their sum) when nothing was ranked, and on success
\* also llm_time and total_time = total_chunks_time + llm_time.
C20_TimingInfo ==
    (pc = "returned" /\ measure_time) =>
        LET TimeKeys == {"retrieve_time", "rerank_time", "total_chunks_time",
                         "llm_time", "total_time"}
            keys == (DOMAIN timing_info) \cap TimeKeys
        IN  /\ timing_info # NoneDict
            /\ IF Calls("retrieve") = {} THEN timing_info = EmptyDict
               ELSE IF Calls("rerank") = {} THEN keys = {"retrieve_time"}
               ELSE /\ {"retrieve_time", "rerank_time",
                         "total_chunks_time"} \subseteq keys
                    /\ timing_info["total_chunks_time"]
                          = timing_info["retrieve_time"]
                            + timing_info["rerank_time"]
                    /\ IF Calls("llm") = {}
                       THEN keys = {"retrieve_time", "rerank_time",
                                    "total_chunks_time"}
                       ELSE /\ keys = TimeKeys
                            /\ timing_info["total_time"]
                                  = timing_info["total_chunks_time"]
                                    + timing_info["llm_time"]

\* a timed successful call whose three stages each took a while
C20_Witness ==
    /\ pc = "returned" /\ measure_time /\ Calls("llm") # {}
    /\ timing_info["retrieve_time"] = 1 /\ timing_info["rerank_time"] = 1
    /\ timing_info["llm_time"] = 1 /\ timing_info["total_time"] = 3

\* C25: an engine with top_n_rerank >= 1 re-ranks a non-empty candidate
\* list to a non-empty list, so its answer() never returns the
\* could-not-rank sentinel: a returning call with a non-blank query ends in
\* the no-candidates sentinel or with the generator's output.
C25_AlwaysRanked ==
    top_n_rerank >= 1 =>
        /\ \A i \in Calls("rerank") :
              (~log[i].raised /\ Len(log[i].given) > 0)
                  => Len(log[i].ret) > 0
        /\ (pc = "returned" /\ ~IsBlank(ans_search_query)) =>
              /\ result # Sentinel(COULD_NOT_RANK_MSG)
              /\ \/ result = Sentinel(NO_CANDIDATES_MSG)
                         /\ Calls("rerank") = {}
                 \/ /\ Calls("llm") # {}
                    /\ result.answer = TheCall("llm").out
                    /\ Len(result.chunks) > 0

\* with top_n_rerank = 1 two candidates were ranked and one was returned
C25_Witness ==
    /\ top_n_rerank = 1 /\ pc = "returned"
    /\ Calls("rerank") # {} /\ Len(TheCall("rerank").given) = 2
    /\ Len(result.chunks) = 1

C27_WitnessSentinel ==
    /\ pc = "returned" /\ ans_llm_callable = "call_llm_default"
    /\ result = Sentinel(COULD_NOT_RANK_MSG)

\* what an answer() call leaves behind once it is over: nothing
NothingLeftBehind ==
    /\ ans_candidates = <<>> /\ ans_top_chunks = <<>>
    /\ timing_info = NoneDict /\ result = NoResult /\ log = <<>>
    /\ pairs = <<>> /\ xenc = <<>> /\ predict_calls = 0

\* C21: no step of answer() changes top_k_retrieve, top_n_rerank, the
\* engine's model handles, either cache slot or the store, and when a call
\* is over no candidate list, ranked list or timing of it is left for the
\* next call to see
C21_Stateless ==
    [][/\ UNCHANGED <<store, top_k_retrieve, top_n_rerank, engines>>
       /\ UNCHANGED <<_embedding_model, _embedding_model_name,
                      _rerank_model, _rerank_model_name>>
       /\ (pc' = "idle" => NothingLeftBehind')
       /\ (pc = "idle" => ans_candidates' = <<>> /\ ans_top_chunks' = <<>>
                          /\ timing_info' = InitialTimingInfo(measure_time'))
      ]_vars

\* a call that retrieved, ranked and returned chunks, the engine as it was
C21_Witness ==
    /\ pc = "returned"
    /\ Len(ans_candidates) > 0 /\ Len(ans_top_chunks) > 0
    /\ predict_calls > 0
    /\ engines = <<PrimedEngine>>

\* C28: a call that returns returns an answer, a chunk list and a timing
\* component, which is None exactly when measure_time is False and a
\* mapping (empty for a blank query) when it is True.
C28_TimingNoneIffNotMeasured ==
    pc = "returned" =>
        /\ DOMAIN result = {"answer", "chunks"}
        /\ result # NoResult
        /\ timing_info = NoneDict <=> ~measure_time
        /\ measure_time =>
              \A k \in DOMAIN timing_info :
                  k \in {"retrieve_time", "num_candidates", "rerank_time",
                         "num_final_chunks", "total_chunks_time", "llm_time",
                         "total_time"}

\* a timed call with a blank query has returned an empty mapping
C28_Witness ==
    /\ pc = "returned" /\ measure_time
    /\ result = Sentinel(EMPTY_QUESTION_MSG)
    /\ timing_info = EmptyDict

\* an untimed call has returned with chunks and no timing
C28_WitnessUntimed ==
    /\ pc = "returned" /\ ~measure_time
    /\ Len(result.chunks) > 0 /\ timing_info = NoneDict

(* ------------- rag/model_cache.py called by one thread ---------------- *)
\* the names a client may ask for
EmbeddingNames == {EMBEDDING_MODEL_NAME, "intfloat/multilingual-e5-base"}
RerankNames == {"fast", RERANK_MODEL_ALIASES.fast,
                "balanced", RERANK_MODEL_ALIASES.balanced,
                "my-org/custom-reranker"}

EmbSlot == Slot(_embedding_model, _embedding_model_name)
RrSlot == Slot(_rerank_model, _rerank_model_name)

\* one entry of cache_log; loaded: whether a constructor was invoked
CacheCalled(op, arg, r, emb1, rr1) ==
    [op |-> op, arg |-> arg, raised |-> r.raised, ret |-> r.ret,
     loaded |-> (r.raised \/ r.nloads # nloads),
     before |-> [emb |-> EmbSlot, rr |-> RrSlot],
     after |-> [emb |-> emb1, rr |-> rr1]]

\* the module has just been imported: nothing is cached
InitCache ==
    /\ _embedding_model = NoHandle /\ _embedding_model_name = NoneName
    /\ _rerank_model = NoHandle /\ _rerank_model_name = NoneName
    /\ cache_log = <<>>
    /\ _rerank_model_cache = NoHandle /\ script_rerank_model_name = NoneName
    /\ env_RERANK_MODEL = NoneName
    /\ nloads = 0
    /\ engines = <<>>
    /\ RERANK_MODEL_NAME = ImportedRerankModelName(env_RERANK_MODEL)
    /\ store = <<>>
    /\ top_k_retrieve = DEFAULT_TOP_K_RETRIEVE
    /\ top_n_rerank = DEFAULT_TOP_N_RERANK
    /\ AnswerIdle
    /\ RerankUnused
    /\ pairs = <<>> /\ xenc = <<>> /\ predict_calls = 0
    /\ predict_on = NoPredict
    /\ thr = NoThreads

CacheFrame ==
    UNCHANGED <<_rerank_model_cache, script_rerank_model_name, thr,
                env_RERANK_MODEL, engine_vars, answer_vars, rr_vars,
                pairs, xenc, predict_calls, predict_on>>

GetEmbeddingModel ==
    /\ Len(cache_log) < MaxCalls
    /\ \E model_name \in EmbeddingNames, load_ok \in BOOLEAN :
         LET r == get_embedding_model(_embedding_model, _embedding_model_name,
                                      nloads, model_name, load_ok)
         IN  /\ _embedding_model' = r.model
             /\ _embedding_model_name' = r.name
             /\ nloads' = r.nloads
             /\ cache_log' = Append(cache_log,
                    CacheCalled("get_embedding_model", model_name, r,
                                Slot(r.model, r.name), RrSlot))
    /\ UNCHANGED <<_rerank_model, _rerank_model_name>>
    /\ CacheFrame

GetRerankModel ==
    /\ Len(cache_log) < MaxCalls
    /\ \E model_name \in RerankNames, load_ok \in BOOLEAN :
         LET r == get_rerank_model(_rerank_model, _rerank_model_name,
                                   nloads, model_name, load_ok)
         IN  /\ _rerank_model' = r.model
             /\ _rerank_model_name' = r.name
             /\ nloads' = r.nloads
             /\ cache_log' = Append(cache_log,
                    CacheCalled("get_rerank_model", model_name, r,
                                EmbSlot, Slot(r.model, r.name)))
    /\ UNCHANGED <<_embedding_model, _embedding_model_name>>
    /\ CacheFrame

ClearCache ==
    /\ Len(cache_log) < MaxCalls
    /\ LET c == clear_cache(EmbSlot, RrSlot)
       IN  /\ _embedding_model' = c.emb.model
           /\ _embedding_model_name' = c.emb.name
           /\ _rerank_model' = c.rr.model
           /\ _rerank_model_name' = c.rr.name
           /\ cache_log' = Append(cache_log,
                  CacheCalled("clear_cache", NoneName,
                              [raised |-> FALSE, ret |-> NoHandle,
                               nloads |-> nloads],
                              c.emb, c.rr))
    /\ UNCHANGED nloads
    /\ CacheFrame

NextCache == GetEmbeddingModel \/ GetRerankModel \/ ClearCache

SpecCache == InitCache /\ [][NextCache]_vars

(* --------------------- claims about the model cache ------------------- *)
\* the entries of cache_log made by one operation
CacheCalls(op) == {i \in 1..Len(cache_log) : cache_log[i].op = op}

\* the slot an entry's operation works on, before and after it
SlotBefore(e) ==
    IF e.op = "get_embedding_model" THEN e.before.emb ELSE e.before.rr
SlotAfter(e) ==
    IF e.op = "get_embedding_model" THEN e.after.emb ELSE e.after.rr

\* the identifier an entry's argument stands for
Wanted(e) ==
    IF e.op = "get_rerank_model"
    THEN Get(RERANK_MODEL_ALIASES, e.arg, e.arg) ELSE e.arg

\* the call found its slot empty or holding another model
Miss(e) == SlotBefore(e).model = NoHandle \/ SlotBefore(e).name # Wanted(e)

\* the handles returned by the calls before the i-th
EarlierHandles(i) == {cache_log[j].ret : j \in 1..(i - 1)}

\* a slot is empty, or holds a handle and the name it was constructed for
WellFormed(slot) ==
    /\ slot.model = NoHandle <=> slot.name = NoneName
    /\ slot.model # NoHandle => slot.model.name = slot.name

\* C13: get_embedding_model returns the cached handle without loading when
\* the name asked for is the cached one; otherwise it loads a new instance,
\* caches it under that name and returns it.  The loads are as many as the
\* calls that find the slot empty or holding another name.
C13_EmbeddingCacheHits ==
    LET G == CacheCalls("get_embedding_model")
    IN  /\ \A i \in G :
              LET e == cache_log[i]
              IN  IF e.before.emb.model = NoHandle \/ e.before.emb.name # e.arg
                  THEN /\ e.loaded
                       /\ ~e.raised =>
                             /\ e.ret # NoHandle
                             /\ e.ret \notin EarlierHandles(i)
                             /\ e.after.emb = Slot(e.ret, e.arg)
                  ELSE /\ ~e.loaded /\ ~e.raised
                       /\ e.ret = e.before.emb.model
                       /\ e.after.emb = e.before.emb
        /\ \A i \in G :
              (/\ i > 1 /\ (i - 1) \in G /\ ~cache_log[i - 1].raised
               /\ cache_log[i - 1].arg = cache_log[i].arg)
              => /\ cache_log[i].ret = cache_log[i - 1].ret
                 /\ ~cache_log[i].loaded
        /\ Cardinality({i \in G : cache_log[i].loaded})
              = Cardinality({i \in G : Miss(cache_log[i])})

\* a name asked for twice, then another name
C13_Witness ==
    /\ Len(cache_log) = 3 /\ CacheCalls("get_embedding_model") = {1, 2, 3}
    /\ \A i \in 1..3 : ~cache_log[i].raised
    /\ cache_log[1].arg = cache_log[2].arg
    /\ cache_log[2].arg # cache_log[3].arg
    /\ cache_log[1].ret = cache_log[2].ret
    /\ cache_log[3].ret # cache_log[2].ret
    /\ nloads = 2

\* C14: get_rerank_model compares and caches the identifier its argument
\* resolves to: it loads exactly when the slot is empty or holds another
\* identifier, so an alias and its identifier hit each other's entry.
C14_AliasResolvedBeforeCacheCheck ==
    LET G == CacheCalls("get_rerank_model")
        Resolved(a) == IF a \in DOMAIN RERANK_MODEL_ALIASES
                       THEN RERANK_MODEL_ALIASES[a] ELSE a
    IN  /\ \A i \in G :
              LET e == cache_log[i]
              IN  /\ e.loaded <=> (\/ e.before.rr.model = NoHandle
                                   \/ e.before.rr.name # Resolved(e.arg))
                  /\ ~e.loaded => e.ret = e.before.rr.model /\ ~e.raised
                  /\ ~e.raised =>
                        /\ e.after.rr = Slot(e.ret, Resolved(e.arg))
                        /\ e.ret.name = Resolved(e.arg)
        /\ \A i \in G :
              (/\ i > 1 /\ (i - 1) \in G /\ ~cache_log[i - 1].raised
               /\ Resolved(cache_log[i - 1].arg) = Resolved(cache_log[i].arg))
              => /\ cache_log[i].ret = cache_log[i - 1].ret
                 /\ ~cache_log[i].loaded

\* the alias, then its identifier, then another alias
C14_Witness ==
    /\ Len(cache_log) = 3 /\ CacheCalls("get_rerank_model") = {1, 2, 3}
    /\ cache_log[1].arg = "fast"
    /\ cache_log[2].arg = RERANK_MODEL_ALIASES.fast
    /\ cache_log[3].arg = "balanced"
    /\ cache_log[1].ret = cache_log[2].ret /\ ~cache_log[2].loaded
    /\ cache_log[3].loaded /\ ~cache_log[3].raised
    /\ _rerank_model_name = RERANK_MODEL_ALIASES.balanced

\* C15: a call whose load fails raises and leaves both slots as they were,
\* each empty or holding a handle with its own name; the next call for the
\* name that was cached gets the cached handle without a load.
C15_FailedLoadLeavesSlot ==
    \A i \in 1..Len(cache_log) :
        cache_log[i].raised =>
            LET e == cache_log[i]
            IN  /\ e.loaded /\ e.op # "clear_cache"
                /\ e.after = e.before
                /\ WellFormed(e.after.emb) /\ WellFormed(e.after.rr)
                /\ (/\ i < Len(cache_log)
                    /\ cache_log[i + 1].op = e.op
                    /\ SlotBefore(e).model # NoHandle
                    /\ Wanted(cache_log[i + 1]) = SlotBefore(e).name)
                   => /\ ~cache_log[i + 1].loaded
                      /\ ~cache_log[i + 1].raised
                      /\ cache_log[i + 1].ret = SlotBefore(e).model

\* a model is cached, loading another fails, the first is asked for again
C15_Witness ==
    /\ Len(cache_log) = 3 /\ CacheCalls("get_rerank_model") = {1, 2, 3}
    /\ ~cache_log[1].raised /\ cache_log[2].raised /\ ~cache_log[3].raised
    /\ cache_log[3].ret = cache_log[1].ret
    /\ nloads = 1

\* C16: clear_cache empties both slots whatever they held, and the next
\* get-call on either slot loads, even for the name cached before the clear.
C16_ClearEmptiesBoth ==
    \A i \in CacheCalls("clear_cache") :
        /\ ~cache_log[i].raised
        /\ cache_log[i].after.emb = EmptySlot
        /\ cache_log[i].after.rr = EmptySlot
        /\ \A j \in (i + 1)..Len(cache_log) :
              (/\ cache_log[j].op # "clear_cache"
               /\ \A k \in (i + 1)..(j - 1) :
                     cache_log[k].op # cache_log[j].op)
              => /\ cache_log[j].loaded
                 /\ ~cache_log[j].raised =>
                       cache_log[j].ret \notin EarlierHandles(j)

\* a model is cached, the cache is cleared, the same model is loaded again
C16_Witness ==
    /\ Len(cache_log) = 3
    /\ cache_log[1].op = "get_rerank_model" /\ ~cache_log[1].raised
    /\ cache_log[2].op = "clear_cache"
    /\ cache_log[3].op = "get_rerank_model" /\ ~cache_log[3].raised
    /\ cache_log[3].arg = cache_log[1].arg
    /\ cache_log[3].ret # cache_log[1].ret

\* C17: each slot is empty (no name, no handle) or holds one handle with
\* its name: a handle some call loaded for exactly that name.
C17_OnePairPerSlot ==
    \A slot \in {EmbSlot, RrSlot} :
        /\ WellFormed(slot)
        /\ slot.model # NoHandle =>
              \E i \in 1..Len(cache_log) :
                  /\ cache_log[i].loaded /\ ~cache_log[i].raised
                  /\ cache_log[i].ret = slot.model
                  /\ Wanted(cache_log[i]) = slot.name

\* both slots are filled and a later load has failed
C17_Witness ==
    /\ _embedding_model # NoHandle /\ _rerank_model # NoHandle
    /\ Len(cache_log) = 3 /\ cache_log[3].raised

(* ------------- several engines over one cache (SpecEngines) ----------- *)
\* os.environ["RERANK_MODEL"] = alias, as scripts/test_rerank_models.py
\* does between constructions
EnvValues == {"balanced", "best"}

\* rerank_model_name as passed to RagQueryEngine(...); NoneName: not passed
RerankModelArgs == {NoneName, "balanced", "my-org/custom-reranker"}

\* the candidate lists the engines are asked to re-rank
EngineCandidates == {<<>>, <<Chunk(1, "a")>>}

\* rag/query_improved.py has just been imported, with RERANK_MODEL unset or
\* set in the environment; nothing is cached and no engine exists
InitEngines ==
    /\ _embedding_model = NoHandle /\ _embedding_model_name = NoneName
    /\ _rerank_model = NoHandle /\ _rerank_model_name = NoneName
    /\ cache_log = <<>>
    /\ _rerank_model_cache = NoHandle /\ script_rerank_model_name = NoneName
    /\ env_RERANK_MODEL \in {NoneName, "balanced"}
    /\ RERANK_MODEL_NAME = ImportedRerankModelName(env_RERANK_MODEL)
    /\ nloads = 0
    /\ engines = <<>>
    /\ store = <<>>
    /\ top_k_retrieve = DEFAULT_TOP_K_RETRIEVE
    /\ top_n_rerank = DEFAULT_TOP_N_RERANK
    /\ AnswerIdle
    /\ RerankUnused
    /\ pairs = <<>> /\ xenc = <<>> /\ predict_calls = 0
    /\ predict_on = NoPredict
    /\ thr = NoThreads

\* os.environ["RERANK_MODEL"] = v; the module global of line 38 was assigned
\* at import and is not assigned again
SetEnv ==
    /\ \E v \in EnvValues : v # env_RERANK_MODEL /\ env_RERANK_MODEL' = v
    /\ UNCHANGED <<cache_vars, engine_vars, answer_vars, rr_vars,
                   pairs, xenc, predict_calls, predict_on>>

\* the value of the parameter rerank_model_name: the argument, or the default
\* that line 67 bound to RERANK_MODEL_NAME when the class was defined
RerankModelNameParam(arg) == IF arg = NoneName THEN RERANK_MODEL_NAME ELSE arg

\* a constructor whose default is read from the environment on each call
RerankModelNameFromEnv(arg) ==
    IF arg = NoneName THEN ImportedRerankModelName(env_RERANK_MODEL) ELSE arg

\* RagQueryEngine(rerank_model_name=arg), lines 63-82: connect, then the
\* embedding model, then the re-rank model, each from the cache; any of the
\* three may raise, and then no engine comes into being
Construct ==
    /\ Len(engines) < MaxEngines
    /\ nloads + 2 <= MaxEngineLoads
    /\ \E arg \in RerankModelArgs, embedding_model_name \in EmbeddingNames,
          connect_ok \in BOOLEAN, emb_ok \in BOOLEAN, rr_ok \in BOOLEAN :
         LET e == get_embedding_model(_embedding_model, _embedding_model_name,
                                      nloads, embedding_model_name, emb_ok)
             r == get_rerank_model(_rerank_model, _rerank_model_name,
                                   e.nloads, RerankModelNameParam(arg), rr_ok)
         IN  IF ~connect_ok
             THEN UNCHANGED <<_embedding_model, _embedding_model_name,
                              _rerank_model, _rerank_model_name, nloads,
                              engines>>
             ELSE /\ _embedding_model' = e.model
                  /\ _embedding_model_name' = e.name
                  /\ IF e.raised
                     THEN UNCHANGED <<_rerank_model, _rerank_model_name,
                                      nloads, engines>>
                     ELSE /\ _rerank_model' = r.model
                          /\ _rerank_model_name' = r.name
                          /\ nloads' = r.nloads
                          /\ engines' =
                               IF r.raised THEN engines
                               ELSE Append(engines,
                                           Engine(e.ret, r.ret, arg # NoneName,
                                                  env_RERANK_MODEL))
    /\ UNCHANGED <<cache_log, thr, _rerank_model_cache,
                   script_rerank_model_name, env_RERANK_MODEL, store,
                   top_k_retrieve, top_n_rerank, RERANK_MODEL_NAME,
                   answer_vars, rr_vars, pairs, xenc, predict_calls,
                   predict_on>>

\* engine e re-ranks a candidate list (lines 134-158)
EngineRerank ==
    /\ predict_calls < MaxCalls
    /\ \E e \in 1..Len(engines), candidates \in EngineCandidates,
          predict_ok \in BOOLEAN :
         \E f \in [EngineAsked(<<"h", " ", "q">>, candidates) -> ScoreVals] :
           Finish(rerank(top_n_rerank, <<"h", " ", "q">>, candidates, f,
                         predict_ok),
                  f, PredictOn(EngineScorer(e), e))
    /\ UNCHANGED <<cache_vars, rr_args, env_RERANK_MODEL, engine_vars,
                   answer_vars>>

\* clear_cache() called while engines are alive
ClearCacheUnderEngines ==
    /\ LET c == clear_cache(EmbSlot, RrSlot)
       IN  /\ _embedding_model' = c.emb.model
           /\ _embedding_model_name' = c.emb.name
           /\ _rerank_model' = c.rr.model
           /\ _rerank_model_name' = c.rr.name
    /\ UNCHANGED <<nloads, cache_log>>
    /\ CacheFrame

NextEngines ==
    \/ SetEnv
    \/ Construct
    \/ EngineRerank
    \/ ClearCacheUnderEngines

SpecEngines == InitEngines /\ [][NextEngines]_vars

(* ------------------- claims about several engines --------------------- *)
\* C24: an engine keeps the two handles its constructor obtained: no later
\* get_embedding_model or get_rerank_model call (a second construction
\* included) and no clear_cache() changes them, and an engine scores with the
\* handle it kept, whatever the cache holds by then
C24_EngineKeepsHandles ==
    [][/\ \A e \in 1..Len(engines) :
            /\ e <= Len(engines')
            /\ engines'[e].embed_model = engines[e].embed_model
            /\ engines'[e].rerank_model = engines[e].rerank_model
       /\ (predict_on' # predict_on =>
             /\ predict_on'.caller \in 1..Len(engines)
             /\ predict_on'.model = engines[predict_on'.caller].rerank_model)
      ]_vars

\* two engines with different re-rank models; the first one has just scored
\* with its own while the cache holds the second one's
C24_Witness ==
    /\ Len(engines) = 2
    /\ engines[1].rerank_model.name # engines[2].rerank_model.name
    /\ _rerank_model = engines[2].rerank_model
    /\ predict_on = PredictOn(engines[1].rerank_model, 1)

\* the cache was cleared after an engine was constructed and the engine
\* still holds both handles
C24_WitnessCleared ==
    /\ Len(engines) >= 1
    /\ _rerank_model = NoHandle /\ _embedding_model = NoHandle
    /\ engines[1].rerank_model # NoHandle
    /\ engines[1].embed_model # NoHandle

\* C30: an engine constructed without rerank_model_name holds the model
\* that RERANK_MODEL named when the engine was constructed (the default
\* model if it was unset)
C30_EnvAtConstruction ==
    \A e \in 1..Len(engines) :
        ~engines[e].explicit =>
            engines[e].rerank_model.name =
                Get(RERANK_MODEL_ALIASES,
                    ImportedRerankModelName(engines[e].env_at_init),
                    ImportedRerankModelName(engines[e].env_at_init))

(* ------- rag/model_cache.py called by two threads (SpecConcurrent) ---- *)
\* The module has no lock.  A thread can be suspended between any two of the
\* following steps of a get function: the read of the cached handle and the
\* read of the cached name (lines 19, 50), the load with its assignment
\* (21, 52), the assignment of the name (22, 53), and the read of the global
\* for the return (27, 58).
InFlight(t) == thr[t].pc \notin {"idle", "done", "raised"}

\* the slot a thread's call works on
SlotOf(t) == IF thr[t].op = "get_embedding_model" THEN EmbSlot ELSE RrSlot

\* the module has just been imported and no thread has called it
InitConcurrent ==
    /\ _embedding_model = NoHandle /\ _embedding_model_name = NoneName
    /\ _rerank_model = NoHandle /\ _rerank_model_name = NoneName
    /\ cache_log = <<>>
    /\ _rerank_model_cache = NoHandle /\ script_rerank_model_name = NoneName
    /\ env_RERANK_MODEL = NoneName
    /\ RERANK_MODEL_NAME = ImportedRerankModelName(env_RERANK_MODEL)
    /\ nloads = 0
    /\ engines = <<>>
    /\ store = <<>>
    /\ top_k_retrieve = DEFAULT_TOP_K_RETRIEVE
    /\ top_n_rerank = DEFAULT_TOP_N_RERANK
    /\ AnswerIdle
    /\ RerankUnused
    /\ pairs = <<>> /\ xenc = <<>> /\ predict_calls = 0
    /\ predict_on = NoPredict
    /\ thr = NoThreads

ThreadFrame ==
    UNCHANGED <<cache_log, _rerank_model_cache, script_rerank_model_name,
                env_RERANK_MODEL, engine_vars, answer_vars, rr_vars,
                pairs, xenc, predict_calls, predict_on>>

\* the calls of the other threads that are in flight on the same slot with
\* another model name
Rivals(t, op, actual) ==
    {u \in Threads \ {t} :
        InFlight(u) /\ thr[u].op = op /\ thr[u].actual # actual}

\* a thread enters get_embedding_model(model_name) or
\* get_rerank_model(model_name); line 48 resolves the alias into a local
ThreadCall ==
    /\ \E t \in Threads,
          call \in ({"get_embedding_model"} \X EmbeddingNames)
                  \cup ({"get_rerank_model"} \X RerankNames) :
         LET op == call[1]
             actual == IF op = "get_rerank_model"
                       THEN Get(RERANK_MODEL_ALIASES, call[2], call[2])
                       ELSE call[2]
         IN  /\ thr[t].pc = "idle"
             /\ thr' = [u \in Threads |->
                          IF u = t
                          THEN [pc |-> "check_model", op |-> op,
                                actual |-> actual, ret |-> NoHandle,
                                raced |-> Rivals(t, op, actual) # {}]
                          ELSE IF u \in Rivals(t, op, actual)
                          THEN [thr[u] EXCEPT !.raced = TRUE]
                          ELSE thr[u]]
    /\ UNCHANGED <<_embedding_model, _embedding_model_name,
                   _rerank_model, _rerank_model_name, nloads>>
    /\ ThreadFrame

\* lines 19, 50, left operand: "_model is None"
ThreadCheckModel ==
    /\ \E t \in Threads :
         /\ thr[t].pc = "check_model"
         /\ thr' = [thr EXCEPT ![t].pc = IF SlotOf(t).model = NoHandle
                                         THEN "load" ELSE "check_name"]
    /\ UNCHANGED <<_embedding_model, _embedding_model_name,
                   _rerank_model, _rerank_model_name, nloads>>
    /\ ThreadFrame

\* lines 19, 50, right operand: "_model_name != model_name"
ThreadCheckName ==
    /\ \E t \in Threads :
         /\ thr[t].pc = "check_name"
         /\ thr' = [thr EXCEPT ![t].pc = IF SlotOf(t).name # thr[t].actual
                                         THEN "load" ELSE "return"]
    /\ UNCHANGED <<_embedding_model, _embedding_model_name,
                   _rerank_model, _rerank_model_name, nloads>>
    /\ ThreadFrame

\* lines 21, 52: the constructor runs and its result is assigned to the
\* global; a failing constructor raises out of the call
ThreadLoad ==
    /\ \E t \in Threads, load_ok \in BOOLEAN :
         /\ thr[t].pc = "load"
         /\ IF ~load_ok
            THEN /\ thr' = [thr EXCEPT ![t].pc = "raised"]
                 /\ UNCHANGED <<_embedding_model, _rerank_model, nloads>>
            ELSE /\ thr' = [thr EXCEPT ![t].pc = "set_name"]
                 /\ nloads' = nloads + 1
                 /\ IF thr[t].op = "get_embedding_model"
                    THEN /\ _embedding_model' = NewHandle(thr[t].actual, nloads)
                         /\ UNCHANGED _rerank_model
                    ELSE /\ _rerank_model' = NewHandle(thr[t].actual, nloads)
                         /\ UNCHANGED _embedding_model
    /\ UNCHANGED <<_embedding_model_name, _rerank_model_name>>
    /\ ThreadFrame

\* lines 22, 53: the name is assigned to the global
ThreadSetName ==
    /\ \E t \in Threads :
         /\ thr[t].pc = "set_name"
         /\ thr' = [thr EXCEPT ![t].pc = "return"]
         /\ IF thr[t].op = "get_embedding_model"
            THEN /\ _embedding_model_name' = thr[t].actual
                 /\ UNCHANGED _rerank_model_name
            ELSE /\ _rerank_model_name' = thr[t].actual
                 /\ UNCHANGED _embedding_model_name
    /\ UNCHANGED <<_embedding_model, _rerank_model, nloads>>
    /\ ThreadFrame

\* lines 27, 58: "return _embedding_model" / "return _rerank_model" reads
\* the global at the time of the return
ReturnedGlobal(t) == SlotOf(t).model

ThreadReturn ==
    /\ \E t \in Threads :
         /\ thr[t].pc = "return"
         /\ thr' = [thr EXCEPT ![t].pc = "done", ![t].ret = ReturnedGlobal(t)]
    /\ UNCHANGED <<_embedding_model, _embedding_model_name,
                   _rerank_model, _rerank_model_name, nloads>>
    /\ ThreadFrame

NextConcurrent ==
    \/ ThreadCall
    \/ ThreadCheckModel
    \/ ThreadCheckName
    \/ ThreadLoad
    \/ ThreadSetName
    \/ ThreadReturn

SpecConcurrent == InitConcurrent /\ [][NextConcurrent]_vars

(* ------------------- claims about concurrent callers ------------------ *)
\* C22: a call that ran while another thread's call for a different model
\* was in flight on the same slot returns a handle of the model it asked for
C22_EachGetsItsOwn ==
    \A t \in Threads :
        (thr[t].pc = "done" /\ thr[t].raced) =>
            thr[t].ret.name = thr[t].actual

\* C23: once every call has returned, each slot holds a handle and the name
\* of that same model, so that a further call with the cached name returns
\* a handle for that name
C23_SlotsConsistentAfterRace ==
    (\A t \in Threads : ~InFlight(t)) =>
        /\ WellFormed(EmbSlot) /\ WellFormed(RrSlot)
        /\ get_embedding_model(_embedding_model, _embedding_model_name,
                               nloads, _embedding_model_name, TRUE).ret.name
             = _embedding_model_name
        /\ get_rerank_model(_rerank_model, _rerank_model_name,
                            nloads, _rerank_model_name, TRUE).ret.name
             = _rerank_model_name

====
